---------------------------- MODULE Spec2Model ----------------------------
(***************************************************************************)
(* Valuation engine of the reverse-DCF calculator (utils/dcfLogic):        *)
(* calculateIntrinsicValue and calculateImpliedGrowthRate.                 *)
(*                                                                         *)
(* The engine computes on JavaScript numbers, i.e. binary floating point   *)
(* with round-to-nearest-even, infinities and NaN.  The model keeps that   *)
(* arithmetic: every +, -, * and / of the source is one rounded operation  *)
(* here.  What is reduced is the width of the significand: Precision bits  *)
(* instead of 53 (TLC's integers have 32 bits).  The exponent is not       *)
(* bounded, so overflow to Infinity and underflow to 0 do not occur; an    *)
(* Infinity or NaN arises only from a division by zero.  The sign of a     *)
(* zero is not kept: the only divisors of the source are Math.pow(1+r,i),  *)
(* which is +0 when it is zero, and r - gTerm, which is guarded to be > 0. *)
(***************************************************************************)
EXTENDS Integers, Sequences, FiniteSets, TLC

(***************************************************************************)
(* Bounds of the model.                                                    *)
(***************************************************************************)
\* half of the significand's width in bits
HalfBits == 11
\* the longest projection horizon (params.years) drawn as an input
MaxYears == 3

Precision == 2 * HalfBits

(***************************************************************************)
(* Numbers.  A finite number is m * 2^e with m = 0 (and e = 0) or          *)
(* 2^(Precision-1) <= |m| < 2^Precision; so every value has one record.    *)
(***************************************************************************)
Pow2(n) == 2 ^ n

Zero == [k |-> "fin", m |-> 0, e |-> 0]
NaN == [k |-> "nan", m |-> 0, e |-> 0]
Infinity(sign) == [k |-> "inf", m |-> sign, e |-> 0]

AbsInt(n) == IF n < 0 THEN -n ELSE n
SignInt(n) == IF n < 0 THEN -1 ELSE 1

RECURSIVE BitLen(_)
BitLen(n) == IF n = 0 THEN 0 ELSE 1 + BitLen(n \div 2)

IsNaN(x) == x.k = "nan"
IsFinite(x) == x.k = "fin"
IsZero(x) == x.k = "fin" /\ x.m = 0
\* the sign of a number that is not NaN: -1, 0 or 1
SignOf(x) == IF x.m < 0 THEN -1 ELSE IF x.m > 0 THEN 1 ELSE 0

\* q * 2^e with 2^(Precision-1) <= q <= 2^Precision, signed by sign
Normal(sign, q, e) ==
    IF q = Pow2(Precision)
    THEN [k |-> "fin", m |-> sign * Pow2(Precision - 1), e |-> e + 1]
    ELSE [k |-> "fin", m |-> sign * q, e |-> e]

\* round to nearest, ties to even: q with a remainder of rem / modulus
RoundUp(q, rem, modulus) ==
    IF 2 * rem > modulus \/ (2 * rem = modulus /\ q % 2 = 1) THEN q + 1 ELSE q

\* sign * n * 2^e, n >= 0, rounded to Precision bits
RoundInt(sign, n, e) ==
    LET b == BitLen(n) IN
    IF n = 0 THEN Zero
    ELSE IF b <= Precision
    THEN [k |-> "fin", m |-> sign * n * Pow2(Precision - b), e |-> e - (Precision - b)]
    ELSE LET s == b - Precision
             q == n \div Pow2(s)
             rem == n % Pow2(s)
         IN  Normal(sign, RoundUp(q, rem, Pow2(s)), e + s)

\* the number an integer literal or an integer input denotes
FromInt(n) == RoundInt(SignInt(n), AbsInt(n), 0)

Neg(x) == IF x.k = "nan" THEN x ELSE [x EXCEPT !.m = -x.m]
Abs(x) == IF x.k = "nan" THEN x ELSE [x EXCEPT !.m = AbsInt(x.m)]

(***************************************************************************)
(* x + y.  The operand of the smaller exponent is shifted to the other's   *)
(* with two further bits and a sticky bit, as a hardware adder does.       *)
(***************************************************************************)
AddFinite(a, b) ==
    \* a.e >= b.e, both nonzero
    LET d == a.e - b.e
        bm == AbsInt(b.m) * 4
        kept == IF d > Precision + 2 THEN 0 ELSE bm \div Pow2(d)
        lost == IF d > Precision + 2 THEN TRUE ELSE bm % Pow2(d) # 0
        y == SignInt(b.m) * (2 * kept + (IF lost THEN 1 ELSE 0))
        s == a.m * 8 + y
    IN  RoundInt(SignInt(s), AbsInt(s), a.e - 3)

Add(x, y) ==
    IF x.k = "nan" \/ y.k = "nan" THEN NaN
    ELSE IF x.k = "inf" /\ y.k = "inf" THEN (IF x.m = y.m THEN x ELSE NaN)
    ELSE IF x.k = "inf" THEN x
    ELSE IF y.k = "inf" THEN y
    ELSE IF x.m = 0 THEN y
    ELSE IF y.m = 0 THEN x
    ELSE IF x.e >= y.e THEN AddFinite(x, y) ELSE AddFinite(y, x)

Sub(x, y) == Add(x, Neg(y))

(***************************************************************************)
(* x * y.  The exact product of two significands has 2 * Precision bits;   *)
(* it is formed from half-width pieces as U * 2^Precision + W.             *)
(***************************************************************************)
MulFinite(x, y) ==
    LET K == Pow2(HalfBits)
        xm == AbsInt(x.m)
        ym == AbsInt(y.m)
        a1 == xm \div K
        b1 == xm % K
        a2 == ym \div K
        b2 == ym % K
        mid == a1 * b2 + a2 * b1
        low == (mid % K) * K + b1 * b2
        U == a1 * a2 + mid \div K + low \div (K * K)
        W == low % (K * K)
        sign == SignInt(x.m) * SignInt(y.m)
        top == Pow2(Precision - 1)
    IN  IF U >= top
        THEN Normal(sign, RoundUp(U, W, 2 * top), x.e + y.e + Precision)
        ELSE Normal(sign, RoundUp(2 * U + W \div top, W % top, top),
                    x.e + y.e + Precision - 1)

Mul(x, y) ==
    IF x.k = "nan" \/ y.k = "nan" THEN NaN
    ELSE IF x.k = "inf" \/ y.k = "inf"
    THEN (IF x.m = 0 \/ y.m = 0 THEN NaN ELSE Infinity(SignOf(x) * SignOf(y)))
    ELSE IF x.m = 0 \/ y.m = 0 THEN Zero
    ELSE MulFinite(x, y)

(***************************************************************************)
(* x / y by long division, four quotient bits at a time.                   *)
(***************************************************************************)
RECURSIVE DivBits(_, _, _, _)
DivBits(rem, d, bits, q) ==
    IF bits = 0 THEN <<q, rem>>
    ELSE LET c == IF bits < 4 THEN bits ELSE 4
             t == rem * Pow2(c)
         IN  DivBits(t % d, d, bits - c, q * Pow2(c) + t \div d)

DivFinite(x, y) ==
    LET n == AbsInt(x.m)
        d == AbsInt(y.m)
        sign == SignInt(x.m) * SignInt(y.m)
        bits == IF n >= d THEN Precision - 1 ELSE Precision
        qr == IF n >= d THEN DivBits(n - d, d, bits, 1) ELSE DivBits(n, d, bits, 0)
    IN  Normal(sign, RoundUp(qr[1], qr[2], d), x.e - y.e - bits)

Div(x, y) ==
    IF x.k = "nan" \/ y.k = "nan" THEN NaN
    ELSE IF x.k = "inf" THEN (IF y.k = "inf" THEN NaN
                              ELSE Infinity(x.m * (IF y.m < 0 THEN -1 ELSE 1)))
    ELSE IF y.k = "inf" THEN Zero
    ELSE IF y.m = 0 THEN (IF x.m = 0 THEN NaN ELSE Infinity(SignOf(x)))
    ELSE IF x.m = 0 THEN Zero
    ELSE DivFinite(x, y)

(***************************************************************************)
(* Comparisons: every comparison with NaN is false.                        *)
(***************************************************************************)
LtOrdered(x, y) ==
    \* neither is NaN
    IF x.k = "inf" THEN x.m < 0 /\ ~(y.k = "inf" /\ y.m < 0)
    ELSE IF y.k = "inf" THEN y.m > 0
    ELSE IF SignOf(x) # SignOf(y) THEN SignOf(x) < SignOf(y)
    ELSE IF x.m = 0 THEN FALSE
    ELSE IF x.m > 0 THEN x.e < y.e \/ (x.e = y.e /\ x.m < y.m)
    ELSE x.e > y.e \/ (x.e = y.e /\ x.m < y.m)

Lt(x, y) == x.k # "nan" /\ y.k # "nan" /\ LtOrdered(x, y)
Gt(x, y) == Lt(y, x)
\* x === y
Eq(x, y) == x.k # "nan" /\ y.k # "nan" /\ x = y
Le(x, y) == Lt(x, y) \/ Eq(x, y)
Ge(x, y) == Le(y, x)

\* Math.pow(x, n) for an integer n >= 0, by repeated multiplication
\* (ECMAScript leaves its accuracy to the implementation); Math.pow(x, 0) is 1
RECURSIVE Pow(_, _)
Pow(x, n) == IF n = 0 THEN FromInt(1) ELSE IF n = 1 THEN x ELSE Mul(Pow(x, n - 1), x)


(***************************************************************************)
(* Literals of the source.                                                 *)
(***************************************************************************)
One == FromInt(1)
Hundred == FromInt(100)

(***************************************************************************)
(* calculateIntrinsicValue(baseValue, params).  params is a record with    *)
(* the fields of DCFParams; terminalMethod is "multiple" or "growth".      *)
(***************************************************************************)
\* the percent field as a decimal rate: discountRate / 100
Rate(percent) == Div(percent, Hundred)

\* a slip of sign: currentValue * (1 - g)
CompoundShrinks(currentValue, g) == Mul(currentValue, Sub(One, g))

\* currentValue * (1 + g)
Compound(currentValue, g) == Mul(currentValue, Add(One, g))

\* the exponent off by one: v / Math.pow(1 + r, i + 1)
DiscountYearLate(v, r, i) == Div(v, Pow(Add(One, r), i + 1))

\* v / Math.pow(1 + r, i)
Discount(v, r, i) == Div(v, Pow(Add(One, r), i))

\* flows.push before the value is compounded
ProjectYearStale(st, g, r, i) ==
    LET currentValue == Mul(st.currentValue, Add(One, g))
        pv == Div(currentValue, Pow(Add(One, r), i))
    IN  [currentValue |-> currentValue,
         sumPv |-> Add(st.sumPv, pv),
         flows |-> Append(st.flows, st.currentValue)]

\* one pass of the projection loop: year i
ProjectYear(st, g, r, i) ==
    LET currentValue == Compound(st.currentValue, g)
        pv == Discount(currentValue, r, i)
    IN  [currentValue |-> currentValue,
         sumPv |-> Add(st.sumPv, pv),
         flows |-> Append(st.flows, currentValue)]

\* for (let i = 1; i <= years; i++) from year i on
RECURSIVE ProjectFrom(_, _, _, _, _)
ProjectFrom(i, years, st, g, r) ==
    IF i <= years THEN ProjectFrom(i + 1, years, ProjectYear(st, g, r, i), g, r)
    ELSE st

\* r >= gTerm for r > gTerm
PerpetuityGrowthNonStrict(currentValue, r, gTerm) ==
    IF Ge(r, gTerm)
    THEN Div(Mul(currentValue, Add(One, gTerm)), Sub(r, gTerm))
    ELSE Zero

\* the final value is not grown by one more year
PerpetuityGrowthNoStep(currentValue, r, gTerm) ==
    IF Gt(r, gTerm)
    THEN Div(currentValue, Sub(r, gTerm))
    ELSE Zero

PerpetuityGrowth(currentValue, r, gTerm) ==
    IF Gt(r, gTerm)
    THEN Div(Mul(currentValue, Add(One, gTerm)), Sub(r, gTerm))
    ELSE Zero

ExitMultiple(currentValue, terminalMultiple) == Mul(currentValue, terminalMultiple)

\* the test of terminalMethod inverted
TerminalValueSwapped(currentValue, r, gTerm, params) ==
    IF params.terminalMethod # "growth"
    THEN Div(Mul(currentValue, Add(One, gTerm)), Sub(r, gTerm))
    ELSE Mul(currentValue, params.terminalMultiple)

\* the test r > gTerm made before the method is looked at
TerminalValueLeaks(currentValue, r, gTerm, params) ==
    IF ~Gt(r, gTerm) THEN Zero
    ELSE IF params.terminalMethod = "growth"
    THEN Div(Mul(currentValue, Add(One, gTerm)), Sub(r, gTerm))
    ELSE Mul(currentValue, params.terminalMultiple)

TerminalValue(currentValue, r, gTerm, params) ==
    IF params.terminalMethod = "growth"
    THEN PerpetuityGrowth(currentValue, r, gTerm)
    ELSE ExitMultiple(currentValue, params.terminalMultiple)

calculateIntrinsicValue(baseValue, params) ==
    LET r == Rate(params.discountRate)
        g == Rate(params.growthRate)
        gTerm == Rate(params.terminalGrowthRate)
        st == ProjectFrom(1, params.years,
                          [currentValue |-> baseValue, sumPv |-> Zero, flows |-> <<>>],
                          g, r)
        terminalValue == TerminalValue(st.currentValue, r, gTerm, params)
        pvTerminalValue == Discount(terminalValue, r, params.years)
        totalValue == Add(st.sumPv, pvTerminalValue)
    IN  [value |-> totalValue, flows |-> st.flows, tv |-> terminalValue]

(* calculateImpliedGrowthRate(currentPrice, baseValue, params): the        *)
(* pieces of one pass of its loop.                                         *)
(***************************************************************************)
maxIterations == 100
\* const tolerance = 0.01
tolerance == Div(One, Hundred)
Two == FromInt(2)
\* let low = -0.50; let high = 1.00; let mid = 0
InitialLow == Neg(Div(One, Two))
\* the upper end of the search interval at 200 percent
InitialHighTwo == Two

InitialHigh == One
InitialMid == Zero

\* mid = (low + high) / 2
\* the interval cut at a quarter: low + (high - low) / 4
MidPointQuarter(lo, hi) == Add(lo, Div(Sub(hi, lo), FromInt(4)))

\* the divisor of the midpoint lost: (low + high) / 0
MidPointByZero(lo, hi) == Div(Add(lo, hi), Zero)

MidPoint(lo, hi) == Div(Add(lo, hi), Two)

\* calculateIntrinsicValue(baseValue, { ...params, growthRate: mid * 100 }).value
ValueAt(base, p, m) ==
    calculateIntrinsicValue(base, [p EXCEPT !.growthRate = Mul(m, Hundred)]).value

\* value === 0 && params.terminalMethod === 'growth'
\*   && (params.discountRate/100) <= (params.terminalGrowthRate/100)
SafetyCheck(value, p) ==
    /\ Eq(value, Zero)
    /\ p.terminalMethod = "growth"
    /\ Le(Div(p.discountRate, Hundred), Div(p.terminalGrowthRate, Hundred))

\* Math.abs forgotten: value - currentPrice < tolerance
WithinToleranceSigned(value, price) == Lt(Sub(value, price), tolerance)

\* Math.abs(value - currentPrice) < tolerance
WithinTolerance(value, price) == Lt(Abs(Sub(value, price)), tolerance)

\* i <= maxIterations
LoopContinuesInclusive(n) == n <= maxIterations

\* i < maxIterations
LoopContinues(n) == n < maxIterations

(***************************************************************************)
(* State: the arguments the caller holds, the last two calls of            *)
(* calculateIntrinsicValue with what they returned, and one call of        *)
(* calculateImpliedGrowthRate: its locals and where it stands; and the     *)
(* sensitivity table rendered last.                                         *)
(***************************************************************************)
VARIABLES
    baseValue,      \* the per-share base metric (EPS or FCF)
    params,         \* the caller's DCFParams
    result,         \* the last call of calculateIntrinsicValue: arguments, value returned
    previous,       \* the call before it
    currentPrice,   \* the target price handed to calculateImpliedGrowthRate
    low, high, mid, \* the locals of its search
    i,              \* its loop counter
    pc,             \* "idle": not called; "loop": at the head of the loop;
                    \* "guard", "converged", "exhausted": returned at line 67, 71, 81
    returned,       \* the number it returned
    grid,           \* the table rendered last: its axes and its cells
    app,            \* the state of the App component and its pending fetch
    analysis        \* the state and the props of the ScenarioAnalysis component

vars == <<baseValue, params, result, previous, currentPrice, low, high, mid, i, pc,
          returned, grid, app, analysis>>
callerVars == <<baseValue, params>>
forwardVars == <<result, previous>>
solverVars == <<currentPrice, low, high, mid, i, pc, returned>>
gridVars == <<grid>>
uiVars == <<app, analysis>>

NoCall == [called |-> FALSE]
NoGrid == [kind |-> "none"]
NoApp == [mounted |-> FALSE]
NoAnalysis == [mounted |-> FALSE]
Returned == {"guard", "converged", "exhausted"}

\* the next number above a positive finite x
NextUp(x) == Normal(1, x.m + 1, x.e)

(***************************************************************************)
(* Inputs of the forward calculator: percent fields and per-share amounts  *)
(* as a caller writes them.                                                *)
(***************************************************************************)
BaseValues == {FromInt(n) : n \in {-5, 0, 5}}
DiscountRates == {FromInt(n) : n \in {-100, 2, 6}}
GrowthRates == {FromInt(n) : n \in {-200, -50, 0, 10}}
TerminalMultiples == {FromInt(n) : n \in {-2, 15}}
TerminalGrowthRates == {FromInt(n) : n \in {2, 6}}
TerminalMethods == {"multiple", "growth"}

DCFParams ==
    [discountRate : DiscountRates, terminalMultiple : TerminalMultiples,
     terminalGrowthRate : TerminalGrowthRates, terminalMethod : TerminalMethods,
     years : 0 .. MaxYears, growthRate : GrowthRates]

\* a discount rate one unit in the last place above the terminal growth rate
AdjacentRates ==
    [discountRate : {NextUp(FromInt(63))}, terminalMultiple : {FromInt(15)},
     terminalGrowthRate : {FromInt(63)}, terminalMethod : {"growth"},
     years : {1}, growthRate : GrowthRates]

\* the decimal figure n / d
Decimal(n, d) == Div(FromInt(n), FromInt(d))

\* the worked example: EPS 5 growing 10 percent a year for 10 years, discounted
\* at 6 percent, sold at 15 times the last year
ScenarioParams ==
    [discountRate |-> FromInt(6), terminalMultiple |-> FromInt(15),
     terminalGrowthRate |-> FromInt(2), terminalMethod |-> "multiple",
     years |-> 10, growthRate |-> FromInt(10)]

SolverIdle ==
    /\ currentPrice = Zero
    /\ low = InitialLow
    /\ high = InitialHigh
    /\ mid = InitialMid
    /\ i = 0
    /\ pc = "idle"
    /\ returned = Zero

Init ==
    /\ baseValue \in BaseValues
    /\ params \in DCFParams \cup AdjacentRates \cup {ScenarioParams}
    /\ result = NoCall
    /\ previous = NoCall
    /\ SolverIdle
    /\ grid = NoGrid
    /\ app = NoApp
    /\ analysis = NoAnalysis

\* the flows pushed onto an array that outlives the call
CalculateShared ==
    /\ \E o \in {calculateIntrinsicValue(baseValue, params)} :
           result' = [called |-> TRUE, baseValue |-> baseValue, params |-> params,
                      out |-> [o EXCEPT !.flows =
                                  (IF result.called THEN result.out.flows ELSE <<>>) \o @]]
    /\ previous' = result
    /\ UNCHANGED <<callerVars, solverVars, gridVars, uiVars>>

\* const { value, flows, tv } = calculateIntrinsicValue(baseValue, dcfParams)
Calculate ==
    /\ result' = [called |-> TRUE, baseValue |-> baseValue, params |-> params,
                  out |-> calculateIntrinsicValue(baseValue, params)]
    /\ previous' = result
    /\ UNCHANGED <<callerVars, solverVars, gridVars, uiVars>>

\* updateParam('growthRate', value)
UpdateGrowthRate ==
    \E value \in GrowthRates :
        /\ params' = [params EXCEPT !.growthRate = value]
        /\ UNCHANGED <<baseValue, forwardVars, solverVars, gridVars, uiVars>>

Next == Calculate \/ UpdateGrowthRate

Spec == Init /\ [][Next]_vars

(***************************************************************************)
(* The solver.  Inputs: the parameters without growthRate (the field is    *)
(* overwritten in every pass), and a target price that is either a given   *)
(* amount or the forward value at some growth rate (a round trip).         *)
(***************************************************************************)
SolverBaseValues == {FromInt(-5), Zero, Div(One, Hundred), FromInt(25)}
SolverDiscountRates == {FromInt(n) : n \in {2, 6}}
SolverTerminals ==
    {[terminalMethod |-> "multiple", terminalMultiple |-> FromInt(15),
      terminalGrowthRate |-> FromInt(2)],
     [terminalMethod |-> "growth", terminalMultiple |-> FromInt(15),
      terminalGrowthRate |-> FromInt(2)],
     [terminalMethod |-> "growth", terminalMultiple |-> FromInt(15),
      terminalGrowthRate |-> FromInt(6)]}
SolverYears == {1, MaxYears}
Prices == {FromInt(-1), Div(FromInt(8), FromInt(25)), FromInt(400)}
RoundTripGrowthRates == {FromInt(n) : n \in {-50, 10, 100}}

SolverParams ==
    {[discountRate |-> d, terminalMultiple |-> t.terminalMultiple,
      terminalGrowthRate |-> t.terminalGrowthRate, terminalMethod |-> t.terminalMethod,
      years |-> y, growthRate |-> FromInt(10)] :
        d \in SolverDiscountRates, t \in SolverTerminals, y \in SolverYears}

\* a discount rate of -100 percent: every present value is a division by zero
ZeroDivisorParams ==
    [discountRate |-> FromInt(-100), terminalMultiple |-> FromInt(15),
     terminalGrowthRate |-> FromInt(2), terminalMethod |-> "multiple",
     years |-> 1, growthRate |-> FromInt(10)]

RoundTripPrices(base, p) ==
    {calculateIntrinsicValue(base, [p EXCEPT !.growthRate = g0]).value :
        g0 \in RoundTripGrowthRates}

\* the prices of the worked example: the value written for it and its value
ScenarioPrices(base, p) ==
    IF base = FromInt(5) /\ p = ScenarioParams
    THEN {Decimal(1517, 10), Decimal(17027, 100)}
    ELSE {}

InitSolve ==
    /\ \/ baseValue \in SolverBaseValues /\ params \in SolverParams \cup {ZeroDivisorParams}
       \/ baseValue = FromInt(5) /\ params = ScenarioParams
    /\ result = NoCall
    /\ previous = NoCall
    /\ SolverIdle
    /\ grid = NoGrid
    /\ app = NoApp
    /\ analysis = NoAnalysis

\* calculateImpliedGrowthRate(price, baseValue, params) is entered
SolveStart ==
    /\ pc = "idle"
    /\ \E price \in Prices \cup RoundTripPrices(baseValue, params)
                      \cup ScenarioPrices(baseValue, params) :
           currentPrice' = price
    /\ low' = InitialLow
    /\ high' = InitialHigh
    /\ mid' = InitialMid
    /\ i' = 0
    /\ pc' = "loop"
    /\ UNCHANGED <<callerVars, forwardVars, returned, gridVars, uiVars>>

\* the pass ends in `return 0`
ReturnZero(m, value) ==
    /\ SafetyCheck(value, params)
    /\ mid' = m
    /\ returned' = Zero
    /\ pc' = "guard"
    /\ UNCHANGED <<low, high, i>>

\* the pass ends in `return mid * 100`
ReturnMid(m, value) ==
    /\ ~SafetyCheck(value, params)
    /\ WithinTolerance(value, currentPrice)
    /\ mid' = m
    /\ returned' = Mul(m, Hundred)
    /\ pc' = "converged"
    /\ UNCHANGED <<low, high, i>>

\* the halves exchanged: low = mid when the value is above the price
NarrowSwapped(m, value) ==
    /\ ~SafetyCheck(value, params)
    /\ ~WithinTolerance(value, currentPrice)
    /\ mid' = m
    /\ IF Gt(value, currentPrice)
       THEN low' = m /\ high' = high
       ELSE high' = m /\ low' = low
    /\ i' = i + 1
    /\ UNCHANGED <<pc, returned>>

\* `value > currentPrice` written as not `value < currentPrice`
NarrowNotLess(m, value) ==
    /\ ~SafetyCheck(value, params)
    /\ ~WithinTolerance(value, currentPrice)
    /\ mid' = m
    /\ IF ~Lt(value, currentPrice)
       THEN high' = m /\ low' = low
       ELSE low' = m /\ high' = high
    /\ i' = i + 1
    /\ UNCHANGED <<pc, returned>>

\* the pass halves the interval and the loop goes on
Narrow(m, value) ==
    /\ ~SafetyCheck(value, params)
    /\ ~WithinTolerance(value, currentPrice)
    /\ mid' = m
    /\ IF Gt(value, currentPrice)
       THEN high' = m /\ low' = low
       ELSE low' = m /\ high' = high
    /\ i' = i + 1
    /\ UNCHANGED <<pc, returned>>

\* one pass of the loop: the midpoint, its valuation, and what follows
Pass ==
    /\ pc = "loop"
    /\ LoopContinues(i)
    /\ \E m \in {MidPoint(low, high)} :
           \E value \in {ValueAt(baseValue, params, m)} :
               ReturnZero(m, value) \/ ReturnMid(m, value) \/ Narrow(m, value)
    /\ UNCHANGED <<callerVars, forwardVars, currentPrice, gridVars, uiVars>>

\* the loop is left: return mid * 100
LoopExhausted ==
    /\ pc = "loop"
    /\ ~LoopContinues(i)
    /\ returned' = Mul(mid, Hundred)
    /\ pc' = "exhausted"
    /\ UNCHANGED <<callerVars, forwardVars, currentPrice, low, high, mid, i, gridVars, uiVars>>

NextSolve == SolveStart \/ Pass \/ LoopExhausted

SpecSolve == InitSolve /\ [][NextSolve]_vars

(***************************************************************************)
(* calculateImpliedGrowthRate as the tables call it: the loop run from its *)
(* entry to its return.  The locals of a call are a record st.             *)
(***************************************************************************)
\* what follows the valuation of a pass: a return, or one half kept
BisectOutcome(price, p, st, m, value) ==
    IF SafetyCheck(value, p)
    THEN [st EXCEPT !.mid = m, !.pc = "guard", !.returned = Zero]
    ELSE IF WithinTolerance(value, price)
    THEN [st EXCEPT !.mid = m, !.pc = "converged", !.returned = Mul(m, Hundred)]
    ELSE IF Gt(value, price)
    THEN [st EXCEPT !.mid = m, !.high = m, !.i = st.i + 1]
    ELSE [st EXCEPT !.mid = m, !.low = m, !.i = st.i + 1]

\* one step of a call: a pass of the loop, or the return after the loop
BisectStep(price, base, p, st) ==
    IF st.pc # "loop" THEN st
    ELSE IF ~LoopContinues(st.i)
    THEN [st EXCEPT !.pc = "exhausted", !.returned = Mul(st.mid, Hundred)]
    ELSE CHOOSE out \in UNION {{BisectOutcome(price, p, st, m, value) :
                                  value \in {ValueAt(base, p, m)}} :
                              m \in {MidPoint(st.low, st.high)}} : TRUE

\* k steps in a row
RECURSIVE BisectRun(_, _, _, _, _)
BisectRun(price, base, p, st, k) ==
    IF k = 0 THEN st
    ELSE IF k = 1 THEN BisectStep(price, base, p, st)
    ELSE CHOOSE out \in {BisectRun(price, base, p, h, k - (k \div 2)) :
                            h \in {BisectRun(price, base, p, st, k \div 2)}} : TRUE

\* the locals at the entry of the loop
BisectEntry ==
    [low |-> InitialLow, high |-> InitialHigh, mid |-> InitialMid, i |-> 0,
     pc |-> "loop", returned |-> Zero]

\* the locals at the return: at most maxIterations passes and the return after
\* them
Bisection(price, base, p) == BisectRun(price, base, p, BisectEntry, maxIterations + 1)

calculateImpliedGrowthRate(price, base, p) == Bisection(price, base, p).returned

\* the calls of calculateIntrinsicValue a call of the solver has made: one in
\* each pass begun
ForwardCalls(st) == IF st.pc = "exhausted" THEN st.i ELSE st.i + 1

(***************************************************************************)
(* The two sensitivity tables.  A table is its row keys, its column keys   *)
(* and its cells in the order they are rendered, row after row; a cell is  *)
(* the number shown, the colour class chosen and the number of calls of    *)
(* calculateIntrinsicValue made for it.                                    *)
(***************************************************************************)
\* Math.max(a, b)
Max(a, b) == IF IsNaN(a) \/ IsNaN(b) THEN NaN ELSE IF Lt(a, b) THEN b ELSE a

Half == Div(One, Two)

discountSteps == <<-2, -1, 0, 1, 2>>
growthSteps == <<-2, -1, 0, 1, 2>>

\* a column short: [-2, -1, 0, 1]
terminalStepsFour == <<-2, -1, 0, 1>>

terminalSteps == <<-2, -1, 0, 1, 2>>

\* steps.map(step => base + step)
StepValues(steps, base) == [n \in 1 .. Len(steps) |-> Add(base, FromInt(steps[n]))]

\* the multiple stepped by 1x
MultipleStepSizeOne == One

MultipleStepSize == Two
GrowthStepSize == Half

\* the columns of the implied-growth table
terminalValues(p) ==
    IF p.terminalMethod = "multiple"
    THEN [n \in 1 .. Len(terminalSteps) |->
              Max(One, Add(p.terminalMultiple,
                           Mul(FromInt(terminalSteps[n]), MultipleStepSize)))]
    ELSE [n \in 1 .. Len(terminalSteps) |->
              Add(p.terminalGrowthRate, Mul(FromInt(terminalSteps[n]), GrowthStepSize))]

\* the colour classes, from the most favourable to the least
Emerald80 == "bg-emerald-900/80"
Emerald40 == "bg-emerald-900/40"
Gray50 == "bg-gray-700/50"
Rose40 == "bg-rose-900/40"
Rose80 == "bg-rose-900/80"

\* the thresholds of the value table: 0.15 and 0.05
FifteenPercent == Div(FromInt(15), Hundred)
FivePercent == Div(FromInt(5), Hundred)
\* the thresholds of the implied-growth table: 5 and 1 percentage points
Five == FromInt(5)

\* the colour of a cell of the value table
ValueBand(diff) ==
    IF Gt(diff, FifteenPercent) THEN Emerald80
    ELSE IF Gt(diff, FivePercent) THEN Emerald40
    ELSE IF Ge(diff, Neg(FivePercent)) THEN Gray50
    ELSE IF Gt(diff, Neg(FifteenPercent)) THEN Rose40
    ELSE Rose80

\* `diff <= 1` written `diff < 1`
ImpliedBandStrict(diff) ==
    IF Lt(diff, Neg(Five)) THEN Emerald80
    ELSE IF Lt(diff, Neg(One)) THEN Emerald40
    ELSE IF Lt(diff, One) THEN Gray50
    ELSE IF Lt(diff, Five) THEN Rose40
    ELSE Rose80

\* the colour of a cell of the implied-growth table
ImpliedBand(diff) ==
    IF Lt(diff, Neg(Five)) THEN Emerald80
    ELSE IF Lt(diff, Neg(One)) THEN Emerald40
    ELSE IF Le(diff, One) THEN Gray50
    ELSE IF Lt(diff, Five) THEN Rose40
    ELSE Rose80

\* growthRate and discountRate exchanged
SensitivityCellParamsSwapped(p, d, g) == [p EXCEPT !.growthRate = d, !.discountRate = g]

\* { ...currentParams, growthRate: g, discountRate: d }
SensitivityCellParams(p, d, g) == [p EXCEPT !.growthRate = g, !.discountRate = d]

\* a cell of the value table
SensitivityCell(base, p, price, d, g) ==
    LET value == calculateIntrinsicValue(base, SensitivityCellParams(p, d, g)).value
    IN  [out |-> value, band |-> ValueBand(Div(Sub(value, price), price)), calls |-> 1]

\* { ...currentParams, discountRate: d, terminalMultiple: tv } or
\* { ...currentParams, discountRate: d, terminalGrowthRate: tv }
ImpliedCellParams(p, d, tv) ==
    IF p.terminalMethod = "multiple"
    THEN [p EXCEPT !.discountRate = d, !.terminalMultiple = tv]
    ELSE [p EXCEPT !.discountRate = d, !.terminalGrowthRate = tv]

\* a cell of the implied-growth table
ImpliedCell(base, p, price, d, tv) ==
    CHOOSE cell \in {[out |-> st.returned,
                       band |-> ImpliedBand(Sub(st.returned, p.growthRate)),
                       calls |-> ForwardCalls(st)] :
                          st \in {Bisection(price, base, ImpliedCellParams(p, d, tv))}} : TRUE

\* the table has cells still to render
Rendering == grid.kind # "none" /\ Len(grid.cells) < Len(grid.rows) * Len(grid.cols)

\* the row and the column of the k-th cell rendered
RowOf(g, k) == ((k - 1) \div Len(g.cols)) + 1
ColOf(g, k) == ((k - 1) % Len(g.cols)) + 1

(***************************************************************************)
(* The props the tables are rendered with.                                 *)
(***************************************************************************)
GridBaseValue == FromInt(5)
GridPrices == {FromInt(10), Hundred}

\* exit-multiple props, the multiple from below 1 to 15
MultipleGridParams ==
    [discountRate : {FromInt(6)}, terminalMultiple : {Half, FromInt(3), FromInt(5), FromInt(15)},
     terminalGrowthRate : {Div(FromInt(5), Two)}, terminalMethod : {"multiple"},
     years : {1}, growthRate : {FromInt(10)}]

\* perpetuity-growth props
GrowthGridParams ==
    [discountRate : {FromInt(6)}, terminalMultiple : {FromInt(15)},
     terminalGrowthRate : {Div(FromInt(5), Two)}, terminalMethod : {"growth"},
     years : {1, 2}, growthRate : {FromInt(10)}]

\* props whose central value is 85, 95, 105 or 115 against a price of 100
BandEdgeParams ==
    [discountRate : {Zero}, terminalMultiple : {FromInt(n) : n \in {16, 18, 20, 22}},
     terminalGrowthRate : {Div(FromInt(5), Two)}, terminalMethod : {"multiple"},
     years : {1}, growthRate : {Zero}]

\* props whose growth input is 5 or 1 point away from a rate the solver returns
\* for a price out of reach: 100 or -50
ImpliedEdgeCases ==
    {[params |-> [discountRate |-> FromInt(6), terminalMultiple |-> FromInt(15),
                  terminalGrowthRate |-> Div(FromInt(5), Two), terminalMethod |-> "multiple",
                  years |-> 1, growthRate |-> FromInt(e.growthRate)],
      price |-> FromInt(e.price)] :
        e \in {[growthRate |-> 95, price |-> 1000000], [growthRate |-> 99, price |-> 1000000],
               [growthRate |-> -45, price |-> -1], [growthRate |-> -49, price |-> -1]}}

GridCases ==
    {[params |-> p, price |-> price] :
        p \in MultipleGridParams \cup GrowthGridParams, price \in GridPrices}
        \cup {[params |-> p, price |-> Hundred] : p \in BandEdgeParams}
        \cup ImpliedEdgeCases

InitGrid ==
    /\ baseValue = GridBaseValue
    /\ \E c \in GridCases : params = c.params /\ currentPrice = c.price
    /\ result = NoCall
    /\ previous = NoCall
    /\ low = InitialLow
    /\ high = InitialHigh
    /\ mid = InitialMid
    /\ i = 0
    /\ pc = "idle"
    /\ returned = Zero
    /\ grid = NoGrid
    /\ app = NoApp
    /\ analysis = NoAnalysis

\* SensitivityTable is rendered: its axes
BeginSensitivityTable ==
    /\ ~Rendering
    /\ grid' = [kind |-> "value",
                rows |-> StepValues(discountSteps, params.discountRate),
                cols |-> StepValues(growthSteps, params.growthRate),
                cells |-> <<>>]
    /\ UNCHANGED <<callerVars, forwardVars, solverVars, uiVars>>

\* the next cell of the value table
RenderSensitivityCell ==
    /\ grid.kind = "value"
    /\ Rendering
    /\ \E k \in {Len(grid.cells) + 1} :
           grid' = [grid EXCEPT !.cells =
                        Append(@, SensitivityCell(baseValue, params, currentPrice,
                                                  grid.rows[RowOf(grid, k)],
                                                  grid.cols[ColOf(grid, k)]))]
    /\ UNCHANGED <<callerVars, forwardVars, solverVars, uiVars>>

\* ImpliedGrowthTable is rendered: its axes
BeginImpliedGrowthTable ==
    /\ ~Rendering
    /\ grid' = [kind |-> "implied",
                rows |-> StepValues(discountSteps, params.discountRate),
                cols |-> terminalValues(params),
                cells |-> <<>>]
    /\ UNCHANGED <<callerVars, forwardVars, solverVars, uiVars>>

\* the next cell of the implied-growth table
RenderImpliedCell ==
    /\ grid.kind = "implied"
    /\ Rendering
    /\ \E k \in {Len(grid.cells) + 1} :
           grid' = [grid EXCEPT !.cells =
                        Append(@, ImpliedCell(baseValue, params, currentPrice,
                                              grid.rows[RowOf(grid, k)],
                                              grid.cols[ColOf(grid, k)]))]
    /\ UNCHANGED <<callerVars, forwardVars, solverVars, uiVars>>

NextGrid ==
    \/ BeginSensitivityTable
    \/ RenderSensitivityCell
    \/ BeginImpliedGrowthTable
    \/ RenderImpliedCell

SpecGrid == InitGrid /\ [][NextGrid]_vars

(***************************************************************************)
(* The App component: its state, the fetch of handleSearch while it is     *)
(* pending, and the recalculation effect.  The state is the record app;    *)
(* of a StockData object the model keeps the fields App reads.             *)
(***************************************************************************)
\* null
Null == [k |-> "null", m |-> 0, e |-> 0]

\* a number that is truthy: not null, not NaN, not 0
Truthy(x) == x # Null /\ ~IsNaN(x) /\ ~IsZero(x)

\* a || b
OrElse(a, b) == IF Truthy(a) THEN a ELSE b

\* Math.min(a, b)
Min(a, b) == IF IsNaN(a) \/ IsNaN(b) THEN NaN ELSE IF Lt(b, a) THEN b ELSE a

\* parseFloat(x.toFixed(1)): the tenth nearest to x, the larger one at a tie
ToFixed1(x) ==
    IF ~IsFinite(x) THEN x
    ELSE LET tenths == IF x.e >= 0
                       THEN AbsInt(x.m) * Pow2(x.e) * 10
                       ELSE (20 * AbsInt(x.m) + Pow2(-x.e)) \div (2 * Pow2(-x.e))
         IN  Div(FromInt(SignOf(x) * tenths), FromInt(10))

\* ticker.trim(): the blanks at both ends removed
RECURSIVE TrimStart(_)
TrimStart(s) == IF s # <<>> /\ Head(s) = " " THEN TrimStart(Tail(s)) ELSE s
RECURSIVE TrimEnd(_)
TrimEnd(s) == IF s # <<>> /\ s[Len(s)] = " " THEN TrimEnd(SubSeq(s, 1, Len(s) - 1)) ELSE s
Trim(s) == TrimEnd(TrimStart(s))

\* the default growth rate: the historical growth, cut by 15 percent, in [2, 18]
SmartGrowthRate(data) ==
    LET fcfGrowth == OrElse(data.historical.fcfGrowth5y, data.historical.fcfGrowth3y)
        epsGrowth == OrElse(data.historical.epsGrowth5y, data.historical.epsGrowth3y)
        baseGrowth == IF fcfGrowth # Null /\ epsGrowth # Null
                      THEN Div(Add(fcfGrowth, epsGrowth), Two)
                      ELSE IF fcfGrowth # Null THEN fcfGrowth
                      ELSE IF epsGrowth # Null THEN epsGrowth
                      ELSE IF Truthy(data.growthRate) THEN data.growthRate
                      ELSE FromInt(8)
        reduced == Mul(baseGrowth, Decimal(85, 100))
    IN  ToFixed1(Max(Two, Min(reduced, FromInt(18))))

\* the default multiple: the current P/E in [10, 20]
SafeMultiple(data) ==
    LET currentPE == Div(data.price, OrElse(data.eps, One))
    IN  ToFixed1(Max(FromInt(10), Min(currentPE, FromInt(20))))

\* setDcfParams(prev => ({ ...prev, growthRate, terminalMultiple }))
SmartDefaults(prev, data) ==
    [prev EXCEPT !.growthRate = SmartGrowthRate(data),
                 !.terminalMultiple = SafeMultiple(data)]

\* the data set of startManualEntry
ManualStockData ==
    [ticker |-> "CUSTOM", price |-> Hundred, eps |-> FromInt(5), fcf |-> FromInt(4),
     growthRate |-> FromInt(10),
     historical |-> [epsGrowth5y |-> FromInt(10), epsGrowth3y |-> FromInt(12),
                     fcfGrowth5y |-> FromInt(9), fcfGrowth3y |-> FromInt(11)]]

\* data sets fetchStockData resolves with: a company with a history and a P/E
\* above 20; one without history, without a consensus and with a negative EPS;
\* one whose answer gave no price, which Number() makes NaN
FetchedData ==
    {[ticker |-> "AAPL", price |-> FromInt(150), eps |-> FromInt(6), fcf |-> FromInt(5),
      growthRate |-> FromInt(12),
      historical |-> [epsGrowth5y |-> FromInt(30), epsGrowth3y |-> FromInt(12),
                      fcfGrowth5y |-> Zero, fcfGrowth3y |-> FromInt(20)]],
     [ticker |-> "AAPL", price |-> FromInt(40), eps |-> FromInt(-2), fcf |-> FromInt(1),
      growthRate |-> Zero,
      historical |-> [epsGrowth5y |-> Null, epsGrowth3y |-> Null,
                      fcfGrowth5y |-> Zero, fcfGrowth3y |-> Null]],
     [ticker |-> "AAPL", price |-> NaN, eps |-> Zero, fcf |-> FromInt(1),
      growthRate |-> NaN,
      historical |-> [epsGrowth5y |-> Null, epsGrowth3y |-> FromInt(1),
                      fcfGrowth5y |-> Null, fcfGrowth3y |-> Null]]}

\* the error state after fetchStockData has thrown: its message
FetchError ==
    [message |-> "Could not retrieve stock data. Please check the ticker or try again."]

\* what the user types into the ticker field
Tickers == {<<" ", "A", " ">>}

\* the values the sliders and the method buttons hand to updateParam
ParamEdits == <<[key |-> "growthRate", value |-> FromInt(12)]>>

\* the values the manual fields hand to handleStockDataChange
StockDataEdits == {[key |-> "price", value |-> FromInt(60)]}

MetricTypes == {"EPS", "FCF"}

\* fetches in flight at a time
MaxPending == 1

\* useState of dcfParams
InitialDcfParams ==
    [discountRate |-> FromInt(6), terminalMultiple |-> FromInt(15),
     terminalGrowthRate |-> Decimal(25, 10), terminalMethod |-> "multiple",
     years |-> 10, growthRate |-> FromInt(10)]

\* the state after the first render; the effect of the mount is due
InitialApp ==
    [mounted |-> TRUE, ticker |-> <<>>, loading |-> FALSE, error |-> Null,
     stockData |-> Null, sources |-> <<>>, manualMode |-> FALSE, metricType |-> "EPS",
     dcfParams |-> InitialDcfParams, intrinsicValue |-> Zero, impliedGrowth |-> Zero,
     pending |-> 0, stale |-> TRUE]

\* a render commits the state next: the effect is due when one of its
\* dependencies [stockData, dcfParams, metricType] has changed
Commit(next) ==
    app' = [next EXCEPT !.stale = \/ app.stale
                                  \/ next.stockData # app.stockData
                                  \/ next.dcfParams # app.dcfParams
                                  \/ next.metricType # app.metricType]

appFrame == UNCHANGED <<callerVars, forwardVars, solverVars, gridVars, analysis>>

InitApp ==
    /\ baseValue = Zero
    /\ params = InitialDcfParams
    /\ result = NoCall
    /\ previous = NoCall
    /\ SolverIdle
    /\ grid = NoGrid
    /\ app = InitialApp
    /\ analysis = NoAnalysis

\* onChange of the ticker field
setTicker ==
    /\ ~app.stale
    /\ \E value \in Tickers : Commit([app EXCEPT !.ticker = value])
    /\ appFrame

\* the form is submitted (its button is disabled while loading): handleSearch
\* up to its await
handleSearch ==
    /\ ~app.stale
    /\ ~app.loading
    /\ app.pending < MaxPending
    /\ IF Trim(app.ticker) = <<>>
       THEN UNCHANGED app
       ELSE Commit([app EXCEPT !.loading = TRUE, !.error = Null, !.stockData = Null,
                               !.sources = <<>>, !.manualMode = FALSE,
                               !.metricType = "EPS", !.pending = @ + 1])
    /\ appFrame

\* fetchStockData resolves: handleSearch from its await to its end
FetchResolves ==
    /\ ~app.stale
    /\ app.pending > 0
    /\ \E data \in FetchedData :
           Commit([app EXCEPT !.stockData = data, !.sources = <<"source">>,
                              !.dcfParams = SmartDefaults(@, data),
                              !.loading = FALSE, !.pending = @ - 1])
    /\ appFrame

\* fetchStockData rejects: the catch and the finally of handleSearch
FetchRejects ==
    /\ ~app.stale
    /\ app.pending > 0
    /\ Commit([app EXCEPT !.error = FetchError, !.loading = FALSE, !.pending = @ - 1])
    /\ appFrame

\* the Manual Entry button
startManualEntry ==
    /\ ~app.stale
    /\ Commit([app EXCEPT !.loading = FALSE, !.error = Null, !.sources = <<>>,
                          !.manualMode = TRUE, !.metricType = "EPS",
                          !.stockData = ManualStockData,
                          !.dcfParams = [@ EXCEPT !.growthRate = FromInt(10)]])
    /\ appFrame

\* a manual field is edited (the fields are shown in manual mode)
handleStockDataChange ==
    /\ ~app.stale
    /\ app.manualMode
    /\ \E edit \in StockDataEdits :
           IF app.stockData = Null
           THEN UNCHANGED app
           ELSE Commit([app EXCEPT !.stockData = [@ EXCEPT ![edit.key] = edit.value]])
    /\ appFrame

\* the EPS / FCF buttons (shown with the stock data)
setMetricType ==
    /\ ~app.stale
    /\ app.stockData # Null
    /\ \E type \in MetricTypes : Commit([app EXCEPT !.metricType = type])
    /\ appFrame

\* a slider or a method button (shown with the stock data): updateParam
updateParam ==
    /\ ~app.stale
    /\ app.stockData # Null
    /\ \E n \in 1 .. Len(ParamEdits) :
           Commit([app EXCEPT !.dcfParams =
                                  [@ EXCEPT ![ParamEdits[n].key] = ParamEdits[n].value]])
    /\ appFrame

\* the solver's parameters: dcfParams without growthRate
WithoutGrowthRate(p) ==
    [discountRate |-> p.discountRate, terminalMultiple |-> p.terminalMultiple,
     terminalGrowthRate |-> p.terminalGrowthRate, terminalMethod |-> p.terminalMethod,
     years |-> p.years, growthRate |-> Zero]

\* metricType === 'EPS' ? stockData.eps : stockData.fcf
MetricValue(data, type) == IF type = "EPS" THEN data.eps ELSE data.fcf

\* the effect run too early: before the render that made it due has committed
RecalculateSkips ==
    /\ app.stale
    /\ app' = [app EXCEPT !.stale = FALSE]
    /\ appFrame

\* the recalculation effect.  React runs it after the render that changed a
\* dependency and before it handles the next update, so the handlers wait for it.
Recalculate ==
    /\ app.stale
    /\ IF app.stockData = Null
       THEN app' = [app EXCEPT !.stale = FALSE]
       ELSE \E base \in {MetricValue(app.stockData, app.metricType)} :
                app' = [app EXCEPT
                           !.intrinsicValue =
                               calculateIntrinsicValue(base, app.dcfParams).value,
                           !.impliedGrowth =
                               calculateImpliedGrowthRate(app.stockData.price, base,
                                   WithoutGrowthRate(app.dcfParams)),
                           !.stale = FALSE]
    /\ appFrame

NextApp ==
    \/ setTicker
    \/ handleSearch
    \/ FetchResolves
    \/ FetchRejects
    \/ startManualEntry
    \/ handleStockDataChange
    \/ setMetricType
    \/ updateParam
    \/ Recalculate

SpecApp == InitApp /\ [][NextApp]_vars

(***************************************************************************)
(* The ScenarioAnalysis component: its props stockData and                 *)
(* baseParams.discountRate, its state, and the effect that sets the        *)
(* default scenarios.  The state is the record analysis; due holds the     *)
(* dependencies of the effect that changed in the last render.             *)
(***************************************************************************)
\* the integer part and the remainder of |x|, x finite: <<q, rem # 0, 2 * rem
\* against the modulus (-1, 0, 1)>>
Whole(x) ==
    IF x.e >= 0 THEN <<AbsInt(x.m) * Pow2(x.e), FALSE, -1>>
    ELSE IF -x.e > Precision THEN <<0, x.m # 0, -1>>
    ELSE LET modulus == Pow2(-x.e)
             rem == AbsInt(x.m) % modulus
         IN  <<AbsInt(x.m) \div modulus, rem # 0,
               IF 2 * rem < modulus THEN -1 ELSE IF 2 * rem = modulus THEN 0 ELSE 1>>

\* Math.floor(x)
Floor(x) ==
    IF ~IsFinite(x) THEN x
    ELSE LET w == Whole(x)
         IN  IF x.m >= 0 THEN FromInt(w[1])
             ELSE FromInt(-(w[1] + (IF w[2] THEN 1 ELSE 0)))

\* Math.ceil(x)
Ceil(x) == IF ~IsFinite(x) THEN x ELSE Neg(Floor(Neg(x)))

\* Math.round(x): the nearest integer, the larger one at a tie
Round(x) ==
    IF ~IsFinite(x) THEN x
    ELSE LET w == Whole(x)
         IN  IF x.m >= 0 THEN FromInt(w[1] + (IF w[3] >= 0 THEN 1 ELSE 0))
             ELSE FromInt(-(w[1] + (IF w[3] > 0 THEN 1 ELSE 0)))

\* useState of scenarios
InitialScenarios ==
    <<[name |-> "Conservative", growthRate |-> FromInt(5), terminalValueInput |-> FromInt(10)],
      [name |-> "Normal", growthRate |-> FromInt(10), terminalValueInput |-> FromInt(15)],
      [name |-> "Aggressive", growthRate |-> FromInt(15), terminalValueInput |-> FromInt(20)]>>

\* the base growth of the effect: the historical growth, cut by 15 percent, in [2, 18]
ScenarioBaseGrowth(data) ==
    LET histEPS == OrElse(data.historical.epsGrowth5y, data.historical.epsGrowth3y)
        histFCF == OrElse(data.historical.fcfGrowth5y, data.historical.fcfGrowth3y)
        baseGrowth == IF histEPS # Null /\ histFCF # Null
                      THEN Div(Add(histEPS, histFCF), Two)
                      ELSE IF histEPS # Null THEN histEPS
                      ELSE IF histFCF # Null THEN histFCF
                      ELSE IF Truthy(data.growthRate) THEN data.growthRate
                      ELSE FromInt(8)
    IN  Max(Two, Min(Mul(baseGrowth, Decimal(85, 100)), FromInt(18)))

\* Math.max(10, Math.min(stockData.price / (stockData.eps || 1), 20))
ScenarioBasePE(data) ==
    Max(FromInt(10), Min(Div(data.price, OrElse(data.eps, One)), FromInt(20)))

\* the scenarios the effect sets
DefaultScenarios(data, method) ==
    LET baseGrowth == ScenarioBaseGrowth(data)
        basePE == ScenarioBasePE(data)
    IN  <<[name |-> "Conservative",
           growthRate |-> Max(Zero, Floor(Mul(baseGrowth, Decimal(6, 10)))),
           terminalValueInput |->
               IF method = "multiple"
               THEN Max(FromInt(5), Floor(Mul(basePE, Decimal(7, 10))))
               ELSE Two],
          [name |-> "Normal",
           growthRate |-> ToFixed1(baseGrowth),
           terminalValueInput |->
               IF method = "multiple" THEN Round(basePE) ELSE Decimal(25, 10)],
          [name |-> "Aggressive",
           growthRate |-> Ceil(Mul(baseGrowth, Decimal(13, 10))),
           terminalValueInput |->
               IF method = "multiple"
               THEN Ceil(Mul(basePE, Decimal(12, 10)))
               ELSE FromInt(3)]>>

\* the stockData props the parent passes
AnalysisStockData == {ManualStockData} \cup FetchedData

\* the baseParams.discountRate props the parent passes
BaseDiscountRates == {FromInt(6), FromInt(8)}

\* what the discount-rate slider hands to setDiscountRate
DiscountRateEdits == {FromInt(9)}

\* what the number fields hand to updateScenario
ScenarioEdit ==
    [growthRate |-> FromInt(40), terminalValueInput |-> FromInt(30)]

\* the dependencies of the effect: [stockData, terminalMethod, baseParams.discountRate]
ScenarioDependencies == {"stockData", "terminalMethod", "baseParams.discountRate"}

analysisFrame == UNCHANGED <<callerVars, forwardVars, solverVars, gridVars, app>>

\* the component is mounted: the effect of the mount is due
InitAnalysis ==
    /\ baseValue = Zero
    /\ params = InitialDcfParams
    /\ result = NoCall
    /\ previous = NoCall
    /\ SolverIdle
    /\ grid = NoGrid
    /\ app = NoApp
    /\ \E data \in AnalysisStockData, rate \in BaseDiscountRates :
           analysis = [mounted |-> TRUE, stockData |-> data, baseDiscountRate |-> rate,
                       discountRate |-> rate, terminalMethod |-> "multiple",
                       scenarios |-> InitialScenarios, due |-> ScenarioDependencies]

\* the parent renders the component with another stockData object
StockDataChanges ==
    /\ analysis.due = {}
    /\ \E data \in AnalysisStockData :
           analysis' = [analysis EXCEPT !.stockData = data, !.due = {"stockData"}]
    /\ analysisFrame

\* the parent renders the component with another baseParams.discountRate
BaseDiscountRateChanges ==
    /\ analysis.due = {}
    /\ \E rate \in BaseDiscountRates \ {analysis.baseDiscountRate} :
           analysis' = [analysis EXCEPT !.baseDiscountRate = rate,
                                        !.due = {"baseParams.discountRate"}]
    /\ analysisFrame

\* the discount-rate slider
setDiscountRate ==
    /\ analysis.due = {}
    /\ \E value \in DiscountRateEdits :
           analysis' = [analysis EXCEPT !.discountRate = value]
    /\ analysisFrame

\* the Exit Multiple / Terminal Growth buttons
setTerminalMethod ==
    /\ analysis.due = {}
    /\ \E method \in TerminalMethods :
           analysis' = [analysis EXCEPT
                           !.terminalMethod = method,
                           !.due = IF method = analysis.terminalMethod
                                   THEN {} ELSE {"terminalMethod"}]
    /\ analysisFrame

\* a number field of a scenario is edited: updateScenario(index, field, value)
updateScenario ==
    /\ analysis.due = {}
    /\ \E index \in 1 .. 3, field \in DOMAIN ScenarioEdit :
           analysis' = [analysis EXCEPT !.scenarios[index][field] = ScenarioEdit[field]]
    /\ analysisFrame

\* the effect: the default scenarios and the discount rate of the props
ScenarioDefaults ==
    /\ analysis.due # {}
    /\ analysis' = [analysis EXCEPT
                       !.scenarios = DefaultScenarios(analysis.stockData,
                                                      analysis.terminalMethod),
                       !.discountRate = analysis.baseDiscountRate,
                       !.due = {}]
    /\ analysisFrame

NextAnalysis ==
    \/ StockDataChanges
    \/ BaseDiscountRateChanges
    \/ setDiscountRate
    \/ setTerminalMethod
    \/ updateScenario
    \/ ScenarioDefaults

SpecAnalysis == InitAnalysis /\ [][NextAnalysis]_vars


(***************************************************************************)
(* Properties of calculateIntrinsicValue, stated on the last call          *)
(* (result) and the call before it (previous).                             *)
(***************************************************************************)
\* base * (1 + growthRate/100) * ... * (1 + growthRate/100), n factors
RECURSIVE CompoundedTimes(_, _, _)
CompoundedTimes(base, growthRate, n) ==
    IF n = 0 THEN base
    ELSE Mul(CompoundedTimes(base, growthRate, n - 1), Add(One, Div(growthRate, Hundred)))

\* flows[0]/(1+r)^1 + ... + flows[n-1]/(1+r)^n, summed in that order from 0
RECURSIVE DiscountedFlows(_, _, _)
DiscountedFlows(flows, discountRate, n) ==
    IF n = 0 THEN Zero
    ELSE Add(DiscountedFlows(flows, discountRate, n - 1),
             Div(flows[n], Pow(Add(One, Div(discountRate, Hundred)), n)))

MinusHundred == FromInt(-100)

\* C1: for years >= 1 the flows returned have length years, and the flow of
\* year n (flows[n-1] in the source) is baseValue compounded n times by
\* (1 + growthRate/100): chronological, undiscounted.
C1_FlowsAreProjectedValues ==
    (result.called /\ result.params.years >= 1) =>
        /\ Len(result.out.flows) = result.params.years
        /\ result.out.flows # <<>>
        /\ \A n \in 1 .. Len(result.out.flows) :
               result.out.flows[n] =
                   CompoundedTimes(result.baseValue, result.params.growthRate, n)

C1_Witness ==
    /\ result.called
    /\ result.params.years >= 2
    /\ result.baseValue = FromInt(5)
    /\ result.params.growthRate = FromInt(10)
    /\ Lt(result.out.flows[1], result.out.flows[2])

\* C2: the value returned is the sum of the flows, each discounted by
\* (1 + discountRate/100)^year, plus the terminal value returned divided by
\* (1 + discountRate/100)^years; the terminal value returned is the
\* undiscounted one.
C2_ValueIsDiscountedSum ==
    result.called =>
        result.out.value =
            Add(DiscountedFlows(result.out.flows, result.params.discountRate,
                                Len(result.out.flows)),
                Div(result.out.tv,
                    Pow(Add(One, Div(result.params.discountRate, Hundred)),
                        result.params.years)))

C2_Witness ==
    /\ result.called
    /\ result.params.years >= 2
    /\ result.params.discountRate = FromInt(6)
    /\ result.baseValue = FromInt(5)
    /\ Gt(result.out.tv, result.out.value)
    /\ Gt(result.out.value, Zero)

\* C3: under the exit-multiple method the terminal value returned is exactly
\* the last flow times terminalMultiple, for years >= 1.
C3_ExitMultipleTerminalValue ==
    (result.called /\ result.params.terminalMethod = "multiple"
        /\ result.params.years >= 1) =>
        result.out.tv =
            Mul(result.out.flows[result.params.years], result.params.terminalMultiple)

C3_Witness ==
    /\ result.called
    /\ result.params.terminalMethod = "multiple"
    /\ result.params.years >= 1
    /\ result.params.terminalMultiple = FromInt(15)
    /\ Gt(result.out.tv, Zero)

\* C4: under the perpetuity-growth method with discountRate <= terminalGrowthRate
\* (and discountRate > -100, the documented domain of the calculator) the terminal
\* value returned is 0, the value returned is the sum of the discounted flows
\* alone, and it is a finite number: no error.
C4_DegeneratePerpetuity ==
    (result.called /\ result.params.terminalMethod = "growth"
        /\ Le(result.params.discountRate, result.params.terminalGrowthRate)
        /\ Gt(result.params.discountRate, MinusHundred)) =>
        /\ result.out.tv = Zero
        /\ result.out.value =
               DiscountedFlows(result.out.flows, result.params.discountRate,
                               Len(result.out.flows))
        /\ IsFinite(result.out.value)

C4_Witness ==
    /\ result.called
    /\ result.params.terminalMethod = "growth"
    /\ Lt(result.params.discountRate, result.params.terminalGrowthRate)
    /\ result.params.years >= 2
    /\ result.out.tv = Zero
    /\ Gt(result.out.value, Zero)

\* V_final * (1 + gTerm) / (r - gTerm) on the last flow of a call
PerpetuityFormula(call) ==
    LET r == Div(call.params.discountRate, Hundred)
        gTerm == Div(call.params.terminalGrowthRate, Hundred)
    IN  Div(Mul(call.out.flows[call.params.years], Add(One, gTerm)), Sub(r, gTerm))

\* C5 as stated: under the perpetuity-growth method with
\* discountRate > terminalGrowthRate (the percent inputs) the terminal value is
\* V_final * (1 + gTerm) / (r - gTerm).
C5_AsStated ==
    (result.called /\ result.params.terminalMethod = "growth"
        /\ result.params.years >= 1
        /\ Gt(result.params.discountRate, result.params.terminalGrowthRate)) =>
        result.out.tv = PerpetuityFormula(result)

\* C5 as amended: under the perpetuity-growth method with r > gTerm, r and gTerm
\* being discountRate / 100 and terminalGrowthRate / 100 as the engine computes
\* them, the terminal value is V_final * (1 + gTerm) / (r - gTerm).
C5_PerpetuityTerminalValue ==
    (result.called /\ result.params.terminalMethod = "growth"
        /\ result.params.years >= 1
        /\ Gt(Div(result.params.discountRate, Hundred),
              Div(result.params.terminalGrowthRate, Hundred))) =>
        result.out.tv = PerpetuityFormula(result)

C5_Witness ==
    /\ result.called
    /\ result.params.terminalMethod = "growth"
    /\ result.params.years >= 2
    /\ result.params.discountRate = FromInt(6)
    /\ result.params.terminalGrowthRate = FromInt(2)
    /\ Gt(result.out.tv, result.out.flows[result.params.years])

\* the two last calls differ in growthRate alone
SameButGrowthRate ==
    /\ previous.called
    /\ result.called
    /\ previous.baseValue = result.baseValue
    /\ [previous.params EXCEPT !.growthRate = Zero]
           = [result.params EXCEPT !.growthRate = Zero]

\* C6 as stated: with everything but growthRate fixed (years >= 1 and
\* discountRate > -100, the calculator's stated domain), a call at a higher
\* growthRate never returns a lower value.
C6_AsStated ==
    (SameButGrowthRate
        /\ result.params.years >= 1
        /\ Gt(result.params.discountRate, MinusHundred)
        /\ Le(previous.params.growthRate, result.params.growthRate)) =>
        ~Gt(previous.out.value, result.out.value)

\* the inputs on which the value is monotone: a base value >= 0, growth rates and
\* a discount rate that keep 1 + g >= 0 and 1 + r > 0, and a terminal value that
\* does not turn the final flow negative; and a value that is a finite number
MonotoneDomain(call) ==
    /\ Ge(call.baseValue, Zero)
    /\ Ge(call.params.growthRate, MinusHundred)
    /\ Gt(call.params.discountRate, MinusHundred)
    /\ call.params.terminalMethod = "multiple" => Ge(call.params.terminalMultiple, Zero)
    /\ call.params.terminalMethod = "growth" =>
           Ge(call.params.terminalGrowthRate, MinusHundred)
    /\ IsFinite(call.out.value)

\* C6 as amended: on those inputs, g1 <= g2 implies value(g1) <= value(g2).
C6_MonotoneInGrowthRate ==
    (SameButGrowthRate
        /\ MonotoneDomain(previous) /\ MonotoneDomain(result)
        /\ Le(previous.params.growthRate, result.params.growthRate)) =>
        Le(previous.out.value, result.out.value)

C6_Witness ==
    /\ SameButGrowthRate
    /\ MonotoneDomain(previous) /\ MonotoneDomain(result)
    /\ result.params.years >= 2
    /\ Lt(previous.params.growthRate, result.params.growthRate)
    /\ Lt(previous.out.value, result.out.value)


(***************************************************************************)
(* Properties of calculateImpliedGrowthRate.                               *)
(***************************************************************************)
\* the forward value at a growth rate given in percent
ForwardValue(growthRate) ==
    calculateIntrinsicValue(baseValue, [params EXCEPT !.growthRate = growthRate]).value

\* the literals 0.01 (a cent), 0.1 (a tenth of a percentage point) and 20
OneCent == Div(FromInt(1), FromInt(100))
OneTenth == Div(FromInt(1), FromInt(10))
Twenty == FromInt(20)

\* the solver returned a rate within 0.1 percentage points of every growth rate
\* whose forward value is the price it was given
RoundTripHolds ==
    \A g0 \in RoundTripGrowthRates :
        Eq(currentPrice, ForwardValue(g0)) => Le(Abs(Sub(returned, g0)), OneTenth)

\* C7 as stated: under the exit-multiple method (with baseValue > 0, a price > 0
\* and discountRate > -100, which the callers are to ensure), the solver called
\* with the forward value at a growth rate g0 in [-50, 100] returns a rate within
\* 0.1 percentage points of g0.
C7_AsStated ==
    (pc \in Returned /\ params.terminalMethod = "multiple"
        /\ Gt(baseValue, Zero) /\ Gt(currentPrice, Zero)
        /\ Gt(params.discountRate, MinusHundred)) => RoundTripHolds

\* inputs on which a cent of value is less than 0.05 percentage points of growth:
\* the first flow alone moves by baseValue / (1 + r) per unit of growth
RoundTripDomain ==
    /\ params.terminalMethod = "multiple"
    /\ params.years >= 1
    /\ Gt(params.discountRate, MinusHundred)
    /\ Ge(params.terminalMultiple, Zero)
    /\ Ge(baseValue, Mul(Twenty, Add(One, Div(params.discountRate, Hundred))))

\* C7 as amended: the round trip holds when moreover years >= 1,
\* discountRate > -100, terminalMultiple >= 0 and
\* baseValue >= 20 * (1 + discountRate/100).
C7_RoundTrip ==
    (pc \in Returned /\ RoundTripDomain) => RoundTripHolds

C7_Witness ==
    /\ pc = "converged"
    /\ RoundTripDomain
    /\ i >= 5
    /\ \E g0 \in RoundTripGrowthRates :
           /\ Eq(currentPrice, ForwardValue(g0))
           /\ returned # g0
           /\ Le(Abs(Sub(returned, g0)), OneTenth)

\* C8: under the perpetuity-growth method with discountRate <= terminalGrowthRate
\* the solver abandons the search at once (no pass narrows the interval) and
\* returns 0, whatever the price and the base value.
C8_GuardAbandonsSearch ==
    (pc # "idle" /\ params.terminalMethod = "growth"
        /\ Le(params.discountRate, params.terminalGrowthRate)) =>
        /\ i = 0
        /\ pc \in Returned => (pc = "guard" /\ returned = Zero)

\* C9: the solver returns mid * 100 from the first pass whose valuation is within
\* 0.01 of the price: a pass after which the loop goes on was not within 0.01;
\* and whenever it returns before the 100th pass, and not by the safety check,
\* the forward value at the rate returned is within 0.01 of the price.
C9_ConvergedWithinTolerance ==
    /\ (pc = "loop" /\ i >= 1) =>
           ~Lt(Abs(Sub(ForwardValue(Mul(mid, Hundred)), currentPrice)), OneCent)
    /\ pc = "converged" => returned = Mul(mid, Hundred)
    /\ (pc \in Returned /\ pc # "guard" /\ i < maxIterations - 1) =>
           Lt(Abs(Sub(ForwardValue(returned), currentPrice)), OneCent)

C9_Witness ==
    /\ pc = "converged"
    /\ i >= 5
    /\ i < maxIterations - 1
    /\ ~Eq(ForwardValue(returned), currentPrice)
    /\ Lt(Abs(Sub(ForwardValue(returned), currentPrice)), OneCent)

\* C10: the loop makes at most 100 passes: from the head of the loop every step
\* either returns or begins the next pass with i one higher, and i never exceeds
\* 100; when the call returns past the loop (no pass was within the tolerance) it
\* returns the midpoint of the 100th pass times 100, a finite number, not an error.
C10_AtMostHundredPasses ==
    /\ [](/\ i \in 0 .. 100
          /\ pc = "exhausted" =>
                 /\ i = 100
                 /\ returned = Mul(mid, Hundred)
                 /\ mid = low \/ mid = high
                 /\ IsFinite(returned))
    /\ [][pc = "loop" => (pc' \in Returned \/ (pc' = "loop" /\ i' = i + 1))]_vars

C10_Witness ==
    /\ pc = "exhausted"
    /\ i = 100
    /\ IsFinite(currentPrice)
    /\ returned = Mul(mid, Hundred)
    /\ ~Lt(Abs(Sub(ForwardValue(returned), currentPrice)), OneCent)

MinusFifty == FromInt(-50)

\* C11: whatever the inputs (a price <= 0, a base value <= 0, parameters whose
\* forward value is NaN or infinite), every return of the solver is a finite
\* number of percent, between -50 and 100; a pass has no other way out than its
\* three returns and the next pass.
C11_ReturnsFinitePercent ==
    pc \in Returned =>
        /\ IsFinite(returned)
        /\ Ge(returned, MinusFifty)
        /\ Le(returned, Hundred)

C11_Witness ==
    /\ pc \in Returned
    /\ ~IsFinite(ForwardValue(returned))
    /\ IsFinite(returned)

\* inputs on which the forward value is positive and does not decrease with the
\* growth rate over the whole search interval
ClampDomain ==
    /\ Gt(baseValue, Zero)
    /\ params.years >= 1
    /\ Gt(params.discountRate, MinusHundred)
    /\ params.terminalMethod = "multiple" => Ge(params.terminalMultiple, Zero)
    /\ params.terminalMethod = "growth" => Ge(params.terminalGrowthRate, MinusHundred)

\* a thousandth of a percentage point
OneThousandth == Div(FromInt(1), FromInt(1000))

\* C12 as stated: under a monotone model, a price above the forward value at 100
\* percent growth gives a return at 100, and a price below the forward value at
\* -50 percent gives a return at -50 (here: to a thousandth of a point).
C12_AsStated ==
    (pc \in Returned /\ ClampDomain) =>
        /\ Gt(currentPrice, ForwardValue(Hundred)) =>
               Le(Abs(Sub(returned, Hundred)), OneThousandth)
        /\ Lt(currentPrice, ForwardValue(MinusFifty)) =>
               Le(Abs(Sub(returned, MinusFifty)), OneThousandth)

\* C12 as amended: under a monotone model with a positive base value, a price at
\* least 0.01 above the forward value at 100 percent growth makes the solver run
\* all its passes and return exactly 100; a price at least 0.01 below the
\* forward value at -50 percent makes it return exactly -50.
C12_ClampedAtBoundary ==
    (pc \in Returned /\ ClampDomain) =>
        /\ Ge(Sub(currentPrice, ForwardValue(Hundred)), tolerance) =>
               (pc = "exhausted" /\ returned = Hundred)
        /\ Ge(Sub(ForwardValue(MinusFifty), currentPrice), tolerance) =>
               (pc = "exhausted" /\ returned = MinusFifty)

C12_Witness ==
    /\ pc = "exhausted"
    /\ ClampDomain
    /\ baseValue = FromInt(25)
    /\ Ge(Sub(currentPrice, ForwardValue(Hundred)), tolerance)
    /\ returned = Hundred

(***************************************************************************)
(* Claims about the sensitivity tables.                                    *)
(***************************************************************************)
\* every cell of the table has been rendered
Complete == grid.kind # "none" /\ ~Rendering

\* the cell at row r, column c (from 1)
CellAt(g, r, c) == g.cells[(r - 1) * Len(g.cols) + c]

\* the evaluation a table shows for the parameters p
Evaluation(kind, p) ==
    IF kind = "value" THEN calculateIntrinsicValue(baseValue, p).value
    ELSE calculateImpliedGrowthRate(currentPrice, baseValue, p)

CentralParams(kind, p) ==
    IF kind = "implied" /\ p.terminalMethod = "multiple"
    THEN [p EXCEPT !.terminalMultiple = Max(One, p.terminalMultiple)]
    ELSE p

WithRates(p, d, g) ==
    [discountRate |-> d, growthRate |-> g, terminalMultiple |-> p.terminalMultiple,
     terminalGrowthRate |-> p.terminalGrowthRate, terminalMethod |-> p.terminalMethod,
     years |-> p.years]

\* C14: the rows of the value table are discountRate - 2, - 1, + 0, + 1, + 2, its
\* columns are growthRate - 2, - 1, + 0, + 1, + 2, and the cell at (d, g) holds
\* the intrinsic value for the base parameters with only these two replaced.
C14_ValueMatrix ==
    grid.kind = "value" =>
        /\ grid.rows = [n \in 1 .. 5 |-> Add(params.discountRate, FromInt(n - 3))]
        /\ grid.cols = [n \in 1 .. 5 |-> Add(params.growthRate, FromInt(n - 3))]
        /\ \A k \in 1 .. Len(grid.cells) :
               grid.cells[k].out =
                   calculateIntrinsicValue(baseValue,
                       WithRates(params, grid.rows[RowOf(grid, k)],
                                 grid.cols[ColOf(grid, k)])).value

C14_Witness ==
    /\ Complete
    /\ grid.kind = "value"
    /\ CellAt(grid, 1, 5).out # CellAt(grid, 5, 1).out
    /\ CellAt(grid, 1, 5).out =
           calculateIntrinsicValue(baseValue,
               WithRates(params, Sub(params.discountRate, Two),
                         Add(params.growthRate, Two))).value

\* the base parameters with the discount rate d and the terminal parameter of
\* the method in use set to tv, every other field as it is
WithTerminal(p, d, tv) ==
    [discountRate |-> d, growthRate |-> p.growthRate,
     terminalMultiple |-> IF p.terminalMethod = "multiple" THEN tv ELSE p.terminalMultiple,
     terminalGrowthRate |-> IF p.terminalMethod = "growth" THEN tv ELSE p.terminalGrowthRate,
     terminalMethod |-> p.terminalMethod, years |-> p.years]

\* the terminal parameter at offset n steps from its base value
TerminalOffset(p, n) ==
    IF p.terminalMethod = "multiple"
    THEN Add(p.terminalMultiple, Mul(FromInt(n), Two))
    ELSE Add(p.terminalGrowthRate, Mul(FromInt(n), Div(One, Two)))

\* the cell rendered last holds the implied growth rate for its row and column
LastImpliedCell ==
    \A k \in {Len(grid.cells)} \ {0} :
        grid.cells[k].out =
            calculateImpliedGrowthRate(currentPrice, baseValue,
                WithTerminal(params, grid.rows[RowOf(grid, k)], grid.cols[ColOf(grid, k)]))

Ascending(axis) == \A n \in 1 .. Len(axis) - 1 : Lt(axis[n], axis[n + 1])

\* C16: in both tables the row keys and the column keys are in ascending order
\* of the axis value, so that no two rows and no two columns carry the same
\* value.
C16_AxesAscending ==
    grid.kind # "none" => Ascending(grid.rows) /\ Ascending(grid.cols)

\* the relative deviation of a cell value from the price
Deviation(value) == Div(Sub(value, currentPrice), currentPrice)

\* C17: with d = (cellValue - currentPrice) / currentPrice, a cell of the value
\* table is in the band of d > 0.15, of 0.05 < d <= 0.15, of -0.05 <= d <= 0.05,
\* of -0.15 <= d < -0.05 or of d < -0.15, the boundary values included as written.
C17_ValueBands ==
    grid.kind = "value" =>
        \A k \in 1 .. Len(grid.cells) :
            \E d \in {Deviation(grid.cells[k].out)} :
                /\ Gt(d, FifteenPercent) => grid.cells[k].band = Emerald80
                /\ (Gt(d, FivePercent) /\ Le(d, FifteenPercent)) =>
                       grid.cells[k].band = Emerald40
                /\ (Ge(d, Neg(FivePercent)) /\ Le(d, FivePercent)) =>
                       grid.cells[k].band = Gray50
                /\ (Ge(d, Neg(FifteenPercent)) /\ Lt(d, Neg(FivePercent))) =>
                       grid.cells[k].band = Rose40
                /\ Lt(d, Neg(FifteenPercent)) => grid.cells[k].band = Rose80

\* C18: with diff = impliedGrowth - userGrowthInput, a cell of the implied-growth
\* table is in the band of diff < -5, of -5 <= diff < -1, of -1 <= diff <= 1, of
\* 1 < diff < 5 or of diff >= 5, and the polarity is the inverse of the value
\* table's: the lowest band is the strongest green, the highest the strongest red.
C18_ImpliedBands ==
    grid.kind = "implied" =>
        \A k \in 1 .. Len(grid.cells) :
            \E diff \in {Sub(grid.cells[k].out, params.growthRate)} :
                /\ grid.cells[k].band \in {Emerald80, Emerald40, Gray50, Rose40, Rose80}
                /\ Lt(diff, Neg(Five)) <=> grid.cells[k].band = Emerald80
                /\ (Ge(diff, Neg(Five)) /\ Lt(diff, Neg(One))) <=>
                       grid.cells[k].band = Emerald40
                /\ (Ge(diff, Neg(One)) /\ Le(diff, One)) <=> grid.cells[k].band = Gray50
                /\ (Gt(diff, One) /\ Lt(diff, Five)) <=> grid.cells[k].band = Rose40
                /\ Ge(diff, Five) <=> grid.cells[k].band = Rose80

C18_Witness ==
    /\ grid.kind = "implied"
    /\ \E k \in 1 .. Len(grid.cells) :
           /\ Sub(grid.cells[k].out, params.growthRate) = One
           /\ grid.cells[k].band = Gray50
    /\ Complete

(***************************************************************************)
(* Claims about the fields a call reads and the objects it leaves alone.   *)
(***************************************************************************)
\* other contents of the terminal field the method in use does not read
InactiveAlternatives == {Zero, FromInt(50), NaN}

\* the parameters with the inactive terminal field set to x
WithInactive(p, x) ==
    IF p.terminalMethod = "multiple"
    THEN [p EXCEPT !.terminalGrowthRate = x]
    ELSE [p EXCEPT !.terminalMultiple = x]

\* the parameters with the terminal field in use set to x
WithActive(p, x) ==
    IF p.terminalMethod = "multiple"
    THEN [p EXCEPT !.terminalMultiple = x]
    ELSE [p EXCEPT !.terminalGrowthRate = x]

\* the parameters of the valuation of the current pass
PassParams(p) == [p EXCEPT !.growthRate = Mul(mid, Hundred)]

\* C19: the inactive terminal field is ignored.  Under the exit multiple the
\* result of calculateIntrinsicValue (value, flows, terminal value) is the same
\* for every terminalGrowthRate, under the perpetuity growth it is the same for
\* every terminalMultiple, and so is the return of calculateImpliedGrowthRate.
C19_InactiveFieldIgnored ==
    \A x \in InactiveAlternatives :
        /\ pc \in {"loop"} \cup Returned =>
               calculateIntrinsicValue(baseValue, PassParams(WithInactive(params, x)))
                   = calculateIntrinsicValue(baseValue, PassParams(params))
        /\ pc \in Returned =>
               calculateImpliedGrowthRate(currentPrice, baseValue, WithInactive(params, x))
                   = returned

C19_Witness ==
    /\ pc = "converged"
    /\ params.terminalMethod = "multiple"
    /\ calculateImpliedGrowthRate(currentPrice, baseValue,
                                  WithInactive(params, FromInt(50))) = returned
    /\ calculateImpliedGrowthRate(currentPrice, baseValue,
                                  WithActive(params, FromInt(50))) # returned
    /\ calculateIntrinsicValue(baseValue, PassParams(WithInactive(params, FromInt(50))))
           = calculateIntrinsicValue(baseValue, PassParams(params))
    /\ calculateIntrinsicValue(baseValue, PassParams(WithActive(params, FromInt(50))))
           # calculateIntrinsicValue(baseValue, PassParams(params))

\* a remembered call returned what its inputs determine
Determined(call) ==
    call.called => call.out = calculateIntrinsicValue(call.baseValue, call.params)

Near(x, figure, tol) == Le(Abs(Sub(x, figure)), tol)

\* the last call is the worked example
ScenarioCalled ==
    result.called /\ result.baseValue = FromInt(5) /\ result.params = ScenarioParams

\* the discounted terminal value of the last call
PvTerminalValue ==
    Div(result.out.tv,
        Pow(Add(One, Div(result.params.discountRate, Hundred)), result.params.years))

\* the sum of the discounted flows of the last call
SumPv ==
    DiscountedFlows(result.out.flows, result.params.discountRate, Len(result.out.flows))

\* C21 as stated: the example yields a year-1 flow of 5.5, a year-10 flow of
\* about 12.97, a terminal value of about 194.6, a discounted terminal value of
\* about 108.7, discounted flows summing to about 43.0 and a value of about
\* 151.7, each to the last digit written.
C21_AsStated ==
    ScenarioCalled =>
        /\ Near(result.out.flows[1], Decimal(55, 10), Decimal(5, 1000))
        /\ Near(result.out.flows[10], Decimal(1297, 100), Decimal(5, 1000))
        /\ Near(result.out.tv, Decimal(1946, 10), Decimal(5, 100))
        /\ Near(PvTerminalValue, Decimal(1087, 10), Decimal(5, 100))
        /\ Near(SumPv, Decimal(430, 10), Decimal(5, 100))
        /\ Near(result.out.value, Decimal(1517, 10), Decimal(5, 100))

\* C21 as amended: the example yields a year-1 flow of 5.5, a year-10 flow of
\* about 12.97, a terminal value of about 194.53, a discounted terminal value of
\* about 108.62, discounted flows summing to about 61.65 and a value of about
\* 170.27, each to within 0.01.
C21_ConcreteScenario ==
    ScenarioCalled =>
        /\ Len(result.out.flows) = 10
        /\ Near(result.out.flows[1], Decimal(55, 10), OneCent)
        /\ Near(result.out.flows[10], Decimal(1297, 100), OneCent)
        /\ Near(result.out.tv, Decimal(19453, 100), OneCent)
        /\ Near(PvTerminalValue, Decimal(10862, 100), OneCent)
        /\ Near(SumPv, Decimal(6165, 100), OneCent)
        /\ Near(result.out.value, Decimal(17027, 100), OneCent)

C21_Witness ==
    /\ ScenarioCalled
    /\ Near(result.out.value, Decimal(17027, 100), OneCent)
    /\ ~Near(result.out.value, Decimal(1517, 10), One)
    /\ Near(Add(SumPv, PvTerminalValue), result.out.value, OneThousandth)

\* the solver was called on the worked example and has returned
ScenarioSolved ==
    pc \in Returned /\ baseValue = FromInt(5) /\ params = ScenarioParams

\* C22 as stated: calculateImpliedGrowthRate(151.7, 5, the parameters of the
\* example) returns 10.0 to within 0.1 percentage points.
C22_AsStated ==
    (ScenarioSolved /\ currentPrice = Decimal(1517, 10)) =>
        Near(returned, FromInt(10), OneTenth)

\* C22 as amended: called with the value of the example, 170.27, the solver
\* returns 10.0 to within 0.1 percentage points; called with 151.7 it returns
\* about 8.5.
C22_ReverseScenario ==
    ScenarioSolved =>
        /\ currentPrice = Decimal(17027, 100) =>
               (pc = "converged" /\ Near(returned, FromInt(10), OneTenth))
        /\ currentPrice = Decimal(1517, 10) =>
               (pc = "converged" /\ Near(returned, Decimal(85, 10), OneTenth))

C22_Witness ==
    /\ ScenarioSolved
    /\ currentPrice = Decimal(17027, 100)
    /\ pc = "converged"
    /\ i >= 10
    /\ Near(returned, FromInt(10), OneTenth)
    /\ Near(ForwardValue(returned), currentPrice, tolerance)

\* C23: in every iteration of calculateImpliedGrowthRate that does not return,
\* the midpoint is (low + high) / 2, and if its valuation is greater than the
\* price then high becomes the midpoint and low is unchanged, otherwise (the
\* valuation equal, below or not comparable) low becomes the midpoint and high
\* is unchanged.
C23_BisectionStep ==
    [][(pc = "loop" /\ pc' = "loop" /\ i' # i) =>
           /\ mid' = Div(Add(low, high), Two)
           /\ i' = i + 1
           /\ IF Gt(calculateIntrinsicValue(baseValue,
                        [params EXCEPT !.growthRate = Mul(mid', Hundred)]).value,
                    currentPrice)
              THEN high' = mid' /\ low' = low
              ELSE low' = mid' /\ high' = high]_vars

C23_Witness ==
    /\ pc = "loop"
    /\ i = 2
    /\ IsNaN(ForwardValue(Mul(mid, Hundred)))
    /\ low = mid
    /\ high = InitialHigh

\* the calls of calculateIntrinsicValue made for the first n cells of a table
RECURSIVE CallsForCells(_, _)
CallsForCells(cells, n) ==
    IF n = 0 THEN 0 ELSE CallsForCells(cells, n - 1) + cells[n].calls

\* C24: rendering an implied-growth table makes at most 5 x 5 x 100 = 2500 calls
\* of calculateIntrinsicValue, at most 100 for each of its 25 cells, and
\* rendering a value table makes exactly 25.
C24_ForwardEvaluations ==
    /\ grid.kind = "implied" =>
           /\ \A k \in 1 .. Len(grid.cells) : grid.cells[k].calls \in 1 .. 100
           /\ Complete =>
                  Len(grid.cells) = 25 /\ CallsForCells(grid.cells, 25) <= 2500
    /\ (grid.kind = "value" /\ Complete) =>
           Len(grid.cells) = 25 /\ CallsForCells(grid.cells, 25) = 25

C24_Witness ==
    /\ grid.kind = "implied"
    /\ Complete
    /\ CallsForCells(grid.cells, Len(grid.cells)) = 2500

(***************************************************************************)
(* C25: in App, once the recalculation effect has run after parameter      *)
(* edits, stock-data edits and metric toggles, the stored intrinsicValue   *)
(* and impliedGrowth are calculateIntrinsicValue and                       *)
(* calculateImpliedGrowthRate of the current stockData, dcfParams and      *)
(* metricType; and updateParam changes the named field of dcfParams only.  *)
(***************************************************************************)
\* the effect has run on the state shown
Recalculated == app.mounted /\ ~app.stale /\ app.stockData # Null

\* the stored results are the engine's results for the current inputs
StoredResultsCurrent ==
    \E base \in {MetricValue(app.stockData, app.metricType)} :
        /\ app.intrinsicValue = calculateIntrinsicValue(base, app.dcfParams).value
        /\ app.impliedGrowth =
               calculateImpliedGrowthRate(app.stockData.price, base,
                                          WithoutGrowthRate(app.dcfParams))

\* the step changes at most the field key of dcfParams, and nothing else of
\* the state but the mark that the effect is due
OnlyParamChanged(key) ==
    /\ \A f \in DOMAIN app.dcfParams \ {key} : app'.dcfParams[f] = app.dcfParams[f]
    /\ \A f \in DOMAIN app \ {"dcfParams", "stale"} : app'[f] = app[f]

C25_Reinvocation ==
    /\ [](Recalculated => StoredResultsCurrent)
    /\ [][updateParam => \E n \in 1 .. Len(ParamEdits) :
                             /\ OnlyParamChanged(ParamEdits[n].key)
                             /\ app'.dcfParams[ParamEdits[n].key] = ParamEdits[n].value]_vars

\* the effect has run after a parameter edit, a stock-data edit and a metric
\* toggle, and the results are no longer those of the mount
C25_Witness ==
    /\ Recalculated
    /\ app.dcfParams.growthRate = FromInt(12)
    /\ app.stockData.price = FromInt(60)
    /\ app.metricType = "FCF"
    /\ app.intrinsicValue # Zero
    /\ app.impliedGrowth # Zero

(***************************************************************************)
(* C26: the bisection invariant of calculateImpliedGrowthRate.             *)
(***************************************************************************)
\* 1.5 / 2^n, the width of the search interval after n halvings
Width(n) == RoundInt(1, 3, -(n + 1))

\* the pass about to run is iteration i + 1; its midpoint
NextMid == MidPoint(low, high)

\* the passes whose ends and midpoint the significand still holds exactly
ExactPasses == Precision - 2

\* C26 as stated: at every iteration k (here k = i + 1), -0.5 <= low < mid <
\* high <= 1 and high - low = 1.5 / 2^(k-1); every returned value is strictly
\* between -50 and 100 or is the 0 of the guard; the midpoint evaluated is never
\* an end of the initial interval.
C26_AsStated ==
    /\ (pc = "loop" /\ LoopContinues(i)) =>
           /\ Le(InitialLow, low)
           /\ Lt(low, NextMid)
           /\ Lt(NextMid, high)
           /\ Le(high, InitialHigh)
           /\ Sub(high, low) = Width(i)
    /\ (pc = "loop" /\ i >= 1) => mid \notin {InitialLow, InitialHigh}
    /\ pc \in Returned =>
           \/ pc = "guard" /\ returned = Zero
           \/ Lt(MinusFifty, returned) /\ Lt(returned, Hundred)

\* C26 as amended: at every iteration -0.5 <= low <= mid <= high <= 1; as long
\* as the significand holds the ends and the midpoint exactly (the first
\* Precision - 1 iterations) low < mid < high, high - low = 1.5 / 2^(k-1), the
\* midpoint is no end of the initial interval and a value returned by
\* convergence is strictly between -50 and 100; every returned value is in
\* [-50, 100], the 0 of the guard included.
C26_BisectionInvariant ==
    /\ (pc = "loop" /\ LoopContinues(i)) =>
           /\ Le(InitialLow, low)
           /\ Le(low, NextMid)
           /\ Le(NextMid, high)
           /\ Le(high, InitialHigh)
           /\ i <= ExactPasses =>
                  /\ Lt(low, NextMid)
                  /\ Lt(NextMid, high)
                  /\ Sub(high, low) = Width(i)
    /\ (pc = "loop" /\ i \in 1 .. ExactPasses + 1) =>
           mid \notin {InitialLow, InitialHigh}
    /\ (pc = "converged" /\ i <= ExactPasses) =>
           Lt(MinusFifty, returned) /\ Lt(returned, Hundred)
    /\ pc = "guard" => returned = Zero
    /\ pc \in Returned => Le(MinusFifty, returned) /\ Le(returned, Hundred)

\* the interval has collapsed onto its upper end: the midpoint of the next
\* iteration is the end 1.00 itself, and the width is 0
C26_Witness ==
    /\ pc = "loop"
    /\ LoopContinues(i)
    /\ i > ExactPasses
    /\ low = InitialHigh
    /\ high = InitialHigh
    /\ NextMid = InitialHigh
    /\ mid = InitialHigh

(***************************************************************************)
(* C27: the search of App.handleSearch.  A non-blank ticker sets loading   *)
(* and clears error, stockData, sources and manualMode; when the fetch     *)
(* settles loading is false again and either stockData is the fetched data *)
(* with error null, or error is a message with stockData null; a blank     *)
(* ticker changes no state.                                                *)
(***************************************************************************)
\* the step settles a fetch: fetchStockData has resolved or rejected
FetchSettles == app.mounted /\ app'.pending < app.pending

C27_SearchLifecycle ==
    /\ [][handleSearch =>
              IF Trim(app.ticker) = <<>>
              THEN app' = app
              ELSE /\ app'.loading
                   /\ app'.error = Null
                   /\ app'.stockData = Null
                   /\ app'.sources = <<>>
                   /\ ~app'.manualMode]_vars
    /\ [][FetchSettles =>
              /\ ~app'.loading
              /\ \/ app'.stockData \in FetchedData /\ app'.error = Null
                 \/ app'.error = FetchError /\ app'.stockData = Null]_vars

(***************************************************************************)
(* C28: manual entry against a search in flight.  When startManualEntry    *)
(* runs while the fetch of handleSearch is pending, the result or failure  *)
(* arriving later neither replaces the manual stock data, nor sets error,  *)
(* nor overwrites the manual default of dcfParams: manualMode implies that *)
(* stockData is the manually entered data set.                             *)
(***************************************************************************)
\* the data set of startManualEntry, as entered or with a field edited
ManualDataSets ==
    {ManualStockData} \cup
        {[ManualStockData EXCEPT ![edit.key] = edit.value] : edit \in StockDataEdits}

\* the growth rate of manual entry, as set or moved by its slider
ManualGrowthRates ==
    {FromInt(10)} \cup
        {ParamEdits[n].value : n \in {j \in 1 .. Len(ParamEdits) : ParamEdits[j].key = "growthRate"}}

C28_ManualEntryKept ==
    (app.mounted /\ app.manualMode) =>
        /\ app.stockData \in ManualDataSets
        /\ app.error = Null
        /\ app.dcfParams.growthRate \in ManualGrowthRates

(***************************************************************************)
(* C29: the defaults after a successful search.  For every fetched data    *)
(* set dcfParams.growthRate is in [2, 18] and dcfParams.terminalMultiple   *)
(* in [10, 20], while discountRate, terminalGrowthRate, terminalMethod and *)
(* years keep their values.                                                *)
(***************************************************************************)
\* the step ends a search with data
FetchSucceeds == FetchSettles /\ app'.stockData \in FetchedData /\ app'.sources # <<>>

C29_SmartDefaults ==
    [][FetchSucceeds =>
           /\ Ge(app'.dcfParams.growthRate, Two)
           /\ Le(app'.dcfParams.growthRate, FromInt(18))
           /\ Ge(app'.dcfParams.terminalMultiple, FromInt(10))
           /\ Le(app'.dcfParams.terminalMultiple, FromInt(20))
           /\ \A f \in {"discountRate", "terminalGrowthRate", "terminalMethod", "years"} :
                  app'.dcfParams[f] = app.dcfParams[f]]_vars

(***************************************************************************)
(* C30: scenario edits in ScenarioAnalysis.  updateScenario(index, field,  *)
(* value) changes that field of that scenario only and leaves the other    *)
(* two scenarios, discountRate and terminalMethod as they are; and a value *)
(* the user has entered stays until stockData or baseParams.discountRate   *)
(* changes, a switch of the terminal method included.                      *)
(***************************************************************************)
ScenarioFields == {"name", "growthRate", "terminalValueInput"}

\* the step stores value in the field of the scenario at index, nothing else
OnlyScenarioFieldChanged(index, field, value) ==
    /\ analysis'.scenarios[index][field] = value
    /\ \A f \in ScenarioFields \ {field} :
           analysis'.scenarios[index][f] = analysis.scenarios[index][f]
    /\ \A n \in (1 .. 3) \ {index} : analysis'.scenarios[n] = analysis.scenarios[n]
    /\ analysis'.discountRate = analysis.discountRate
    /\ analysis'.terminalMethod = analysis.terminalMethod
    /\ analysis'.stockData = analysis.stockData
    /\ analysis'.baseDiscountRate = analysis.baseDiscountRate

\* the props the defaults depend on are those of the last render, and no
\* change of them waits for the effect
PropsAsBefore ==
    /\ analysis.mounted
    /\ analysis'.stockData = analysis.stockData
    /\ analysis'.baseDiscountRate = analysis.baseDiscountRate
    /\ analysis.due \subseteq {"terminalMethod"}

\* the field of the scenario at index holds what the user entered (no default
\* is one of the values of ScenarioEdit)
UserEdited(index, field) == analysis.scenarios[index][field] = ScenarioEdit[field]

C30_ScenarioEdits ==
    /\ [][updateScenario =>
              \E index \in 1 .. 3, field \in DOMAIN ScenarioEdit :
                  OnlyScenarioFieldChanged(index, field, ScenarioEdit[field])]_vars
    /\ [][PropsAsBefore =>
              \A index \in 1 .. 3, field \in DOMAIN ScenarioEdit :
                  UserEdited(index, field) =>
                      analysis'.scenarios[index][field] = analysis.scenarios[index][field]]_vars

=============================================================================
